---- MODULE Spec2Model ----
(***************************************************************************)
(* Model of src/unzipper/unzipper.py: the watch-and-normalize pipeline.    *)
(*                                                                         *)
(* Spec      the running process: the main thread of watch_and_process,    *)
(*           the root observer thread (ReportsHandler), the observer       *)
(*           threads of the tickers (DownloadsHandler), the producer that  *)
(*           creates ticker folders and writes files, and the interrupt;   *)
(*           every ticker folder appears once.                             *)
(* SpecLive  the running process with no shutdown and no I/O failure,      *)
(*           under fair scheduling of the observer threads.                *)
(* SpecRemake the running process with no shutdown and no I/O failure,     *)
(*           where a ticker folder that is there can appear again.         *)
(* SpecProbe the stability probe _wait_for_file on a clock, against a      *)
(*           file whose second chunk lands after a chosen gap.             *)
(* SpecWait  _wait_for_file on a clock, against a path whose file appears, *)
(*           changes and vanishes at any time.                             *)
(* SpecNorm  process_file called repeatedly on one source item and one     *)
(*           prior state of the destination tree.                          *)
(* SpecReg   the registrar of watch_and_process under any sequence of      *)
(*           directory-creation events on the watch root.                  *)
(* SpecFilter one watcher and the events of its downloads folder.          *)
(*                                                                         *)
(* An Observer of the watchdog library is a thread that takes events from  *)
(* its queue one at a time and runs the handler while holding the          *)
(* observer's lock; stop() sets the stopped flag and then, under the same  *)
(* lock, unschedules the handlers and emitters and wakes the thread;       *)
(* join() waits for the thread to end.  An emitter delivers events only    *)
(* between start() and the unscheduling.                                   *)
(***************************************************************************)
EXTENDS Integers, Sequences, FiniteSets, TLC

(***************************************************************************)
(* Bounds.                                                                 *)
(***************************************************************************)
\* Chunks the producer writes to one file; the file is complete with the last.
FinalSize == 2
\* I/O failures the environment injects in one run.
MaxFaults == 1

\* Clock ticks in one second.
TicksPerSec == 2
\* Largest gap between the two chunks of a file, in ticks.
MaxGap == 5
\* Largest delay between the creation of a file and its callback, in ticks.
MaxDelay == 2
\* Ticks by which time.sleep can overrun.
MaxJitter == 1

\* The defaults of _wait_for_file(filepath, timeout=30, interval=1).
TimeoutSec == 30
IntervalSec == 1
Timeout == TimeoutSec * TicksPerSec
Interval == IntervalSec * TicksPerSec

\* Times a ticker folder that is already there appears under reports_dir
\* again (moved away and back) in one run of SpecRemake.
MaxRemakes == 1

\* Ticker folders that can appear under reports_dir.
Entities == {"A", "B"}
\* The watch root, reports_dir.
Root == "root"

\* An Observer object is named by the directory it is scheduled on and its
\* rank among the observers made for that directory: watch_ticker makes a new
\* Observer at every call (line 128).
Ranks == 1 .. (MaxRemakes + 1)
TickerObservers == Entities \X Ranks
\* reports_observer of line 148
RootObserver == <<Root, 1>>
Watchers == TickerObservers \cup {RootObserver}
NoObserver == <<"none", 0>>
WatchedDir(o) == o[1]
\* The observers made for the downloads folder of ticker e.
ObserversOf(e) == {o \in TickerObservers : WatchedDir(o) = e}

VARIABLES
    dirs,        \* ticker folders that exist under reports_dir
    remakes,     \* reappearances of an existing ticker folder still to come
    chunks,      \* chunks[e]: chunks landed in the file of e's downloads/ (0: no file)
    dest,        \* dest[e]: size of the content e's unzipped/ holds (0: nothing)
    invoked,     \* invoked[e]: process_file has run on e's file
    atStart,     \* atStart[e]: the complete file was there when the first observer of e
                 \* was started
    mainpc,      \* position of the main thread in watch_and_process
    tickers,     \* startup os.listdir snapshot still to register
    interrupted, \* the interrupt signal was delivered
    wt,          \* the running watch_ticker call
    observers,   \* the observers list
    idx,         \* index of the stop / join loop
    started,     \* started[o]: observer.start() was called
    stopFlag,    \* stopFlag[o]: the stopped event of o is set
    unsched,     \* unsched[o]: o's handlers and emitters are unscheduled
    thr,         \* thr[o]: state of o's thread
    queue,       \* queue[o]: o's event queue
    cb,          \* cb[o]: the running DownloadsHandler callback of observer o
    faults,      \* I/O failures still to inject
    regErr,      \* tickers whose watch_ticker raised
    \* -- one _wait_for_file call on a clock (SpecProbe)
    plan,        \* what the producer does: gap = ticks from the first chunk to the second
    now,         \* the clock, in ticks since the file was created
    fsize,       \* size of the file on disk, in chunks
    ppc,         \* "wait": event not yet handled, "loop", "true", "false"
    pstart,      \* start_time
    plast,       \* last_size
    pwake,       \* earliest time of the next loop iteration
    pret,        \* time at which _wait_for_file returned (-1: not yet)
    pseen,       \* history: the last size os.path.getsize returned, and whether a
                 \* poll has found the path missing since
    \* -- process_file on a file system (SpecNorm)
    nsrc,        \* the source item at src_path
    ntree,       \* the tree under unzipped_dir
    ntree0,      \* the tree before the first call
    ntree1,      \* the tree after the first call
    ncalls,      \* calls of process_file made
    nerrs,       \* errors process_file logged
    \* -- the registrar under any sequence of creation events (SpecReg)
    rdirs,       \* folders under reports_dir
    rpc,         \* position of watch_and_process
    rtodo,       \* startup os.listdir snapshot still to register
    robservers,  \* the observers list: the directory each observer is bound to
    rqueue,      \* the root observer's queue of directory-creation events
    rcur,        \* the folder of the root observer's running callback
    revents,     \* folder creations so far
    \* -- one watcher and the events of its downloads folder (SpecFilter)
    fsrc,        \* fsrc[i]: what downloads/ holds at name i: a file or a
                 \* directory, the version of its content (0: nothing), and
                 \* what a directory holds at the name i
    fdst,        \* the tree under unzipped/: each existing path to a
                 \* directory or to a file with its bytes
    fpc,         \* "listdir", "scan", then the observer thread: "idle", "probe"
    fscan,       \* startup os.listdir snapshot still to process
    fsnap,       \* history: the startup os.listdir snapshot
    fq,          \* the observer's event queue
    fcur,        \* the event of the running callback
    fcount       \* changes made to downloads/ so far

sysVars == <<dirs, remakes, chunks, dest, invoked, atStart, mainpc, tickers, interrupted,
             wt, observers, idx, started, stopFlag, unsched, thr, queue, cb,
             faults, regErr>>

probeVars == <<plan, now, fsize, ppc, pstart, plast, pwake, pret, pseen>>

normVars == <<nsrc, ntree, ntree0, ntree1, ncalls, nerrs>>

regVars == <<rdirs, rpc, rtodo, robservers, rqueue, rcur, revents>>

filtVars == <<fsrc, fdst, fpc, fscan, fsnap, fq, fcur, fcount>>

\* What the running process leaves alone.
otherVars == <<probeVars, normVars, regVars, filtVars>>

vars == <<sysVars, probeVars, normVars, regVars, filtVars>>

NoWt == [by |-> "none", ent |-> "none", pc |-> "none", items |-> {},
         obs |-> NoObserver]
NoCb == [pc |-> "none", last |-> -1]

\* The statements of watch_ticker in program order.
WtOrder == <<"makedirs", "listdir", "scan", "start", "append">>

WtNext(pc) ==
    LET i == CHOOSE k \in 1..Len(WtOrder) : WtOrder[k] = pc
    IN  IF i < Len(WtOrder) THEN WtOrder[i + 1] ELSE "return"

\* The process is running: watch_and_process has neither returned nor raised.
Alive == mainpc \notin {"done", "raised"}

\* An emitter delivers events between start() and the unscheduling.
EmitterActive(o) == started[o] /\ ~unsched[o]

\* An event in directory d reaches the queue of every observer that is
\* scheduled on d.
Emit(d, ev) ==
    [o \in Watchers |->
        IF WatchedDir(o) = d /\ EmitterActive(o)
        THEN Append(queue[o], ev)
        ELSE queue[o]]

\* An observer thread that ends with its first callback.
AfterCallbackOnce(o) == "exited"

\* The observer thread after a callback returned: the dispatch loop ends when
\* the stopped event is set.
AfterCallback(o) == IF stopFlag[o] THEN "exited" ELSE "idle"

\* The process at the entry of watch_and_process, with f I/O failures and r
\* reappearances of a ticker folder ahead.
SysStart(f, r) ==
    /\ dirs = {}
    /\ remakes = r
    /\ chunks = [e \in Entities |-> 0]
    /\ dest = [e \in Entities |-> 0]
    /\ invoked = [e \in Entities |-> FALSE]
    /\ atStart = [e \in Entities |-> FALSE]
    /\ mainpc = "listdir"
    /\ tickers = {}
    /\ interrupted = FALSE
    /\ wt = NoWt
    /\ observers = <<>>
    /\ idx = 0
    /\ started = [o \in Watchers |-> FALSE]
    /\ stopFlag = [o \in Watchers |-> FALSE]
    /\ unsched = [o \in Watchers |-> FALSE]
    /\ thr = [o \in Watchers |-> "new"]
    /\ queue = [o \in Watchers |-> <<>>]
    /\ cb = [o \in TickerObservers |-> NoCb]
    /\ faults = f
    /\ regErr = {}

SysInit == SysStart(MaxFaults, 0)

\* No size has been read.
NoReading == [size |-> -1, skipped |-> FALSE]

\* The clocked probe at rest, as in the specifications that do not run it.
ProbeIdle ==
    /\ plan = [gap |-> 0]
    /\ now = 0
    /\ fsize = 0
    /\ ppc = "none"
    /\ pstart = 0
    /\ plast = -1
    /\ pwake = 0
    /\ pret = -1
    /\ pseen = NoReading

\* Names are sequences of characters, paths sequences of names.
DotZip == <<".", "z", "i", "p">>
NoTree == <<>>
MissingSrc == [name |-> <<"a">>, kind |-> "missing", entries |-> <<>>,
               data |-> <<>>, tree |-> NoTree]

\* process_file at rest, as in the specifications that do not run it.
NormIdle ==
    /\ nsrc = MissingSrc
    /\ ntree = NoTree
    /\ ntree0 = NoTree
    /\ ntree1 = NoTree
    /\ ncalls = 0
    /\ nerrs = 0

\* No callback of the root observer is running.
NoFolder == "none"

\* The registrar at rest, as in the specifications that do not run it.
RegIdle ==
    /\ rdirs = {}
    /\ rpc = "none"
    /\ rtodo = {}
    /\ robservers = <<>>
    /\ rqueue = <<>>
    /\ rcur = NoFolder
    /\ revents = 0

\* The names an item of a downloads folder can have (no archive names); at
\* any time a name is free, a file's or a directory's.
Items == {"x", "y"}
Gone == [isdir |-> FALSE, ver |-> 0, sub |-> "none"]
NoEvent == [kind |-> "none", item |-> "none", isdir |-> FALSE]

\* The single watcher at rest, as in the specifications that do not run it.
FilterIdle ==
    /\ fsrc = [i \in Items |-> Gone]
    /\ fdst = NoTree
    /\ fpc = "none"
    /\ fscan = {}
    /\ fsnap = {}
    /\ fq = <<>>
    /\ fcur = NoEvent
    /\ fcount = 0

Init == SysInit /\ ProbeIdle /\ NormIdle /\ RegIdle /\ FilterIdle

(***************************************************************************)
(* The producer.                                                           *)
(***************************************************************************)
\* A ticker folder appears under reports_dir: a new one, or one that is
\* there already and was moved away and back with its content.  Both are a
\* directory-creation event on the watch root.
MkEntityDir(e) ==
    /\ Alive
    /\ IF e \in dirs
       THEN remakes > 0 /\ remakes' = remakes - 1
       ELSE remakes' = remakes
    /\ dirs' = dirs \cup {e}
    /\ queue' = Emit(Root, e)
    /\ UNCHANGED otherVars
    /\ UNCHANGED <<chunks, dest, invoked, atStart, mainpc, tickers, interrupted,
                   wt, observers, idx, started, stopFlag, unsched, thr, cb,
                   faults, regErr>>

\* The producer writes the next chunk of the file in e's downloads/.
WriteChunk(e) ==
    /\ Alive
    /\ e \in dirs
    /\ chunks[e] < FinalSize
    /\ chunks' = [chunks EXCEPT ![e] = @ + 1]
    /\ queue' = Emit(e, IF chunks[e] = 0 THEN "created" ELSE "modified")
    /\ UNCHANGED otherVars
    /\ UNCHANGED <<dirs, remakes, dest, invoked, atStart, mainpc, tickers, interrupted,
                   wt, observers, idx, started, stopFlag, unsched, thr, cb,
                   faults, regErr>>

(***************************************************************************)
(* process_file as the running process sees it: the file's content at the  *)
(* call is what the destination holds after a call that did not raise.     *)
(***************************************************************************)
\* One unzipped/ folder for all tickers (next to the ticker folders).
UnzippedDirShared(e) == CHOOSE x \in Entities : TRUE

\* unzipped_dir = os.path.join(ticker_dir, "unzipped"), the directory the
\* startup scan and the DownloadsHandler of ticker e write to: the ticker
\* whose destination it is.
UnzippedDir(e) == e

\* What a call that raised inside the try block can leave in the target: the
\* error may come before the target is opened (nothing changes), or after
\* shutil.copy2 / the extraction has opened it for writing, which truncates
\* it, and written any part of the source read so far.
FailedOutcomes(e) == {dest[UnzippedDir(e)]} \cup (0 .. chunks[e])

\* process_file(path, unzipped_dir) on the file of e; ok = FALSE: an error
\* inside the try block, caught and logged at lines 59-60.
ProcessFile(e, ok) ==
    IF chunks[e] = 0
    THEN UNCHANGED <<dest, invoked>>
    ELSE /\ invoked' = [invoked EXCEPT ![e] = TRUE]
         /\ IF ok
            THEN dest' = [dest EXCEPT ![UnzippedDir(e)] = chunks[e]]
            ELSE \E n \in FailedOutcomes(e) :
                     dest' = [dest EXCEPT ![UnzippedDir(e)] = n]

(***************************************************************************)
(* watch_ticker, run by the main thread at startup and by the root         *)
(* observer's thread for a new ticker folder.                              *)
(***************************************************************************)
WtAt(stmt) == Alive /\ wt.by # "none" /\ wt.pc = stmt

\* An exception leaves watch_ticker: it ends watch_and_process when the main
\* thread runs it, and the root observer's thread when the callback runs it.
WtRaise ==
    /\ faults > 0
    /\ faults' = faults - 1
    /\ regErr' = regErr \cup {wt.ent}
    /\ wt' = NoWt
    /\ IF wt.by = "main"
       THEN mainpc' = "raised" /\ thr' = thr
       ELSE mainpc' = mainpc /\ thr' = [thr EXCEPT ![RootObserver] = "dead"]

\* os.makedirs(downloads_dir), os.makedirs(unzipped_dir)
WtMakedirs ==
    /\ WtAt("makedirs")
    /\ \/ /\ wt' = [wt EXCEPT !.pc = WtNext("makedirs")]
          /\ UNCHANGED <<mainpc, thr, faults, regErr>>
       \/ WtRaise
    /\ UNCHANGED otherVars
    /\ UNCHANGED <<dirs, remakes, chunks, dest, invoked, atStart, tickers, interrupted,
                   observers, idx, started, stopFlag, unsched, queue, cb>>

\* os.listdir(downloads_dir): the snapshot the loop iterates
WtListdir ==
    /\ WtAt("listdir")
    /\ \/ /\ wt' = [wt EXCEPT !.pc = WtNext("listdir"),
                              !.items = IF chunks[wt.ent] > 0 THEN {"f"} ELSE {}]
          /\ UNCHANGED <<mainpc, thr, faults, regErr>>
       \/ WtRaise
    /\ UNCHANGED otherVars
    /\ UNCHANGED <<dirs, remakes, chunks, dest, invoked, atStart, tickers, interrupted,
                   observers, idx, started, stopFlag, unsched, queue, cb>>

\* one iteration of the loop: process_file(path, unzipped_dir)
WtScanItem ==
    /\ WtAt("scan")
    /\ wt.items # {}
    /\ \E item \in wt.items :
         wt' = [wt EXCEPT !.items = @ \ {item}]
    /\ \/ /\ ProcessFile(wt.ent, TRUE)
          /\ faults' = faults
       \/ /\ faults > 0
          /\ faults' = faults - 1
          /\ ProcessFile(wt.ent, FALSE)
    /\ UNCHANGED otherVars
    /\ UNCHANGED <<dirs, remakes, chunks, atStart, mainpc, tickers, interrupted,
                   observers, idx, started, stopFlag, unsched, thr, queue, cb,
                   regErr>>

\* the loop is over
WtScanDone ==
    /\ WtAt("scan")
    /\ wt.items = {}
    /\ wt' = [wt EXCEPT !.pc = WtNext("scan")]
    /\ UNCHANGED otherVars
    /\ UNCHANGED <<dirs, remakes, chunks, dest, invoked, atStart, mainpc, tickers,
                   interrupted, observers, idx, started, stopFlag, unsched,
                   thr, queue, cb, faults, regErr>>

\* observer = Observer(): a new object, whatever observers the folder has
NewObserver(e) ==
    <<e, 1 + Cardinality({o \in ObserversOf(e) : started[o]})>>

\* observer = Observer(); observer.schedule(...); observer.start()
WtStart ==
    /\ WtAt("start")
    /\ started' = [started EXCEPT ![NewObserver(wt.ent)] = TRUE]
    /\ thr' = [thr EXCEPT ![NewObserver(wt.ent)] = "idle"]
    /\ atStart' = IF NewObserver(wt.ent)[2] = 1
                  THEN [atStart EXCEPT ![wt.ent] = (chunks[wt.ent] = FinalSize)]
                  ELSE atStart
    /\ wt' = [wt EXCEPT !.pc = WtNext("start"), !.obs = NewObserver(wt.ent)]
    /\ UNCHANGED otherVars
    /\ UNCHANGED <<dirs, remakes, chunks, dest, invoked, mainpc, tickers, interrupted,
                   observers, idx, stopFlag, unsched, queue, cb, faults,
                   regErr>>

\* observers.append(observer)
WtAppend ==
    /\ WtAt("append")
    /\ observers' = Append(observers, wt.obs)
    /\ wt' = [wt EXCEPT !.pc = WtNext("append")]
    /\ UNCHANGED otherVars
    /\ UNCHANGED <<dirs, remakes, chunks, dest, invoked, atStart, mainpc, tickers,
                   interrupted, idx, started, stopFlag, unsched, thr, queue,
                   cb, faults, regErr>>

\* watch_ticker returns to the startup loop or ends the root callback
WtReturn ==
    /\ WtAt("return")
    /\ wt' = NoWt
    /\ IF wt.by = "main"
       THEN mainpc' = "loop" /\ thr' = thr
       ELSE /\ mainpc' = mainpc
            /\ thr' = [thr EXCEPT ![RootObserver] = AfterCallback(RootObserver)]
    /\ UNCHANGED otherVars
    /\ UNCHANGED <<dirs, remakes, chunks, dest, invoked, atStart, tickers, interrupted,
                   observers, idx, started, stopFlag, unsched, queue, cb,
                   faults, regErr>>

(***************************************************************************)
(* watch_and_process: the main thread.                                     *)
(***************************************************************************)
\* os.listdir(reports_dir) of line 142
MainListdir ==
    /\ mainpc = "listdir"
    /\ tickers' = dirs
    /\ mainpc' = "loop"
    /\ UNCHANGED otherVars
    /\ UNCHANGED <<dirs, remakes, chunks, dest, invoked, atStart, interrupted, wt,
                   observers, idx, started, stopFlag, unsched, thr, queue, cb,
                   faults, regErr>>

\* one iteration of the startup loop: watch_ticker(ticker_dir, observers)
MainNextTicker ==
    /\ mainpc = "loop"
    /\ \E e \in tickers :
         /\ tickers' = tickers \ {e}
         /\ wt' = [by |-> "main", ent |-> e, pc |-> WtOrder[1], items |-> {},
                   obs |-> NoObserver]
    /\ mainpc' = "wt"
    /\ UNCHANGED otherVars
    /\ UNCHANGED <<dirs, remakes, chunks, dest, invoked, atStart, interrupted,
                   observers, idx, started, stopFlag, unsched, thr, queue, cb,
                   faults, regErr>>

\* reports_observer.schedule(...); reports_observer.start()
MainStartRoot ==
    /\ mainpc = "loop"
    /\ tickers = {}
    /\ started' = [started EXCEPT ![RootObserver] = TRUE]
    /\ thr' = [thr EXCEPT ![RootObserver] = "idle"]
    /\ mainpc' = "append_root"
    /\ UNCHANGED otherVars
    /\ UNCHANGED <<dirs, remakes, chunks, dest, invoked, atStart, tickers, interrupted,
                   wt, observers, idx, stopFlag, unsched, queue, cb, faults,
                   regErr>>

\* observers.append(reports_observer) of line 152
MainAppendRoot ==
    /\ mainpc = "append_root"
    /\ observers' = Append(observers, RootObserver)
    /\ mainpc' = "log"
    /\ UNCHANGED otherVars
    /\ UNCHANGED <<dirs, remakes, chunks, dest, invoked, atStart, tickers, interrupted,
                   wt, idx, started, stopFlag, unsched, thr, queue, cb, faults,
                   regErr>>

\* logging.info of line 154, still outside the try; then the main thread
\* enters the try of line 156 and its sleep loop
MainEnterTry ==
    /\ mainpc = "log"
    /\ mainpc' = "sleep"
    /\ UNCHANGED otherVars
    /\ UNCHANGED <<dirs, remakes, chunks, dest, invoked, atStart, tickers, interrupted,
                   wt, observers, idx, started, stopFlag, unsched, thr, queue,
                   cb, faults, regErr>>

\* The interrupt signal: KeyboardInterrupt is raised in the main thread where
\* it stands.  Only the sleep loop of lines 156-159 catches it.
Interrupt ==
    /\ Alive
    /\ ~interrupted
    /\ interrupted' = TRUE
    /\ IF mainpc = "sleep"
       THEN mainpc' = "stop" /\ idx' = 1
       ELSE mainpc' = "raised" /\ idx' = idx
    /\ UNCHANGED otherVars
    /\ UNCHANGED <<dirs, remakes, chunks, dest, invoked, atStart, tickers, wt,
                   observers, started, stopFlag, unsched, thr, queue, cb,
                   faults, regErr>>

\* obs.stop(), first half: the stopped event is set
StopSetFlag ==
    /\ mainpc = "stop"
    /\ idx <= Len(observers)
    /\ stopFlag' = [stopFlag EXCEPT ![observers[idx]] = TRUE]
    /\ mainpc' = "stop_lock"
    /\ UNCHANGED otherVars
    /\ UNCHANGED <<dirs, remakes, chunks, dest, invoked, atStart, tickers, interrupted,
                   wt, observers, idx, started, unsched, thr, queue, cb,
                   faults, regErr>>

\* obs.stop(), second half: under the observer's lock, which a running
\* callback holds, the handlers and emitters are unscheduled and the thread
\* is woken to leave its loop
StopUnschedule ==
    /\ mainpc = "stop_lock"
    /\ thr[observers[idx]] # "run"
    /\ unsched' = [unsched EXCEPT ![observers[idx]] = TRUE]
    /\ thr' = [thr EXCEPT ![observers[idx]] = IF @ = "idle" THEN "exited" ELSE @]
    /\ idx' = idx + 1
    /\ mainpc' = "stop"
    /\ UNCHANGED otherVars
    /\ UNCHANGED <<dirs, remakes, chunks, dest, invoked, atStart, tickers, interrupted,
                   wt, observers, started, stopFlag, queue, cb, faults,
                   regErr>>

\* the stop loop is over: the join loop starts
StopDone ==
    /\ mainpc = "stop"
    /\ idx > Len(observers)
    /\ mainpc' = "join"
    /\ idx' = 1
    /\ UNCHANGED otherVars
    /\ UNCHANGED <<dirs, remakes, chunks, dest, invoked, atStart, tickers, interrupted,
                   wt, observers, started, stopFlag, unsched, thr, queue, cb,
                   faults, regErr>>

\* obs.join(): returns when the observer's thread has ended
Join ==
    /\ mainpc = "join"
    /\ idx <= Len(observers)
    /\ thr[observers[idx]] \in {"exited", "dead"}
    /\ idx' = idx + 1
    /\ UNCHANGED otherVars
    /\ UNCHANGED <<dirs, remakes, chunks, dest, invoked, atStart, mainpc, tickers,
                   interrupted, wt, observers, started, stopFlag, unsched,
                   thr, queue, cb, faults, regErr>>

\* the join loop is over: watch_and_process returns
JoinDone ==
    /\ mainpc = "join"
    /\ idx > Len(observers)
    /\ mainpc' = "done"
    /\ UNCHANGED otherVars
    /\ UNCHANGED <<dirs, remakes, chunks, dest, invoked, atStart, tickers, interrupted,
                   wt, observers, idx, started, stopFlag, unsched, thr, queue,
                   cb, faults, regErr>>

(***************************************************************************)
(* The observer threads.                                                   *)
(***************************************************************************)
\* An idle observer thread takes the next event while its handlers are
\* scheduled.
CanDispatch(o) ==
    /\ Alive
    /\ thr[o] = "idle"
    /\ ~unsched[o]
    /\ queue[o] # <<>>

\* ReportsHandler.on_created for a directory: watch_ticker(event.src_path)
RootDispatch ==
    /\ CanDispatch(RootObserver)
    /\ queue' = [queue EXCEPT ![RootObserver] = Tail(@)]
    /\ thr' = [thr EXCEPT ![RootObserver] = "run"]
    /\ wt' = [by |-> "root", ent |-> Head(queue[RootObserver]),
              pc |-> WtOrder[1], items |-> {}, obs |-> NoObserver]
    /\ UNCHANGED otherVars
    /\ UNCHANGED <<dirs, remakes, chunks, dest, invoked, atStart, mainpc, tickers,
                   interrupted, observers, idx, started, stopFlag, unsched,
                   cb, faults, regErr>>

\* DownloadsHandler.on_created / on_modified for a file: _wait_for_file starts
Dispatch(o) ==
    /\ CanDispatch(o)
    /\ queue' = [queue EXCEPT ![o] = Tail(@)]
    /\ thr' = [thr EXCEPT ![o] = "run"]
    /\ cb' = [cb EXCEPT ![o] = [pc |-> "probe", last |-> -1]]
    /\ UNCHANGED otherVars
    /\ UNCHANGED <<dirs, remakes, chunks, dest, invoked, atStart, mainpc, tickers,
                   interrupted, wt, observers, idx, started, stopFlag, unsched,
                   faults, regErr>>

InCallback(o, pc) == Alive /\ thr[o] = "run" /\ cb[o].pc = pc

\* one iteration of the loop of _wait_for_file: os.path.getsize and the
\* comparison with last_size (the file of an event exists: the producer
\* removes nothing)
Poll(o) ==
    /\ InCallback(o, "probe")
    /\ cb' = [cb EXCEPT ![o] =
                IF chunks[WatchedDir(o)] = cb[o].last
                THEN [@ EXCEPT !.pc = "process"]
                ELSE [@ EXCEPT !.last = chunks[WatchedDir(o)]]]
    /\ UNCHANGED otherVars
    /\ UNCHANGED <<dirs, remakes, chunks, dest, invoked, atStart, mainpc, tickers,
                   interrupted, wt, observers, idx, started, stopFlag, unsched,
                   thr, queue, faults, regErr>>

\* os.path.getsize raises an OSError other than FileNotFoundError: nothing in
\* _wait_for_file or the callback catches it, and the observer's thread ends
PollRaise(o) ==
    /\ InCallback(o, "probe")
    /\ faults > 0
    /\ faults' = faults - 1
    /\ thr' = [thr EXCEPT ![o] = "dead"]
    /\ cb' = [cb EXCEPT ![o] = NoCb]
    /\ UNCHANGED otherVars
    /\ UNCHANGED <<dirs, remakes, chunks, dest, invoked, atStart, mainpc, tickers,
                   interrupted, wt, observers, idx, started, stopFlag, unsched,
                   queue, regErr>>

\* the loop test of line 73 finds the timeout elapsed, before the first
\* reading or after any later one: _wait_for_file returns False, the file is
\* skipped
ProbeTimeout(o) ==
    /\ InCallback(o, "probe")
    /\ thr' = [thr EXCEPT ![o] = AfterCallback(o)]
    /\ cb' = [cb EXCEPT ![o] = NoCb]
    /\ UNCHANGED otherVars
    /\ UNCHANGED <<dirs, remakes, chunks, dest, invoked, atStart, mainpc, tickers,
                   interrupted, wt, observers, idx, started, stopFlag, unsched,
                   queue, faults, regErr>>

\* _wait_for_file returned True: process_file(event.src_path, unzipped_dir)
Process(o) ==
    /\ InCallback(o, "process")
    /\ \/ /\ ProcessFile(WatchedDir(o), TRUE)
          /\ faults' = faults
       \/ /\ faults > 0
          /\ faults' = faults - 1
          /\ ProcessFile(WatchedDir(o), FALSE)
    /\ thr' = [thr EXCEPT ![o] = AfterCallback(o)]
    /\ cb' = [cb EXCEPT ![o] = NoCb]
    /\ UNCHANGED otherVars
    /\ UNCHANGED <<dirs, remakes, chunks, atStart, mainpc, tickers, interrupted, wt,
                   observers, idx, started, stopFlag, unsched, queue, regErr>>

SysNext ==
    \/ \E e \in Entities : MkEntityDir(e)
    \/ \E e \in Entities : WriteChunk(e)
    \/ MainListdir
    \/ MainNextTicker
    \/ MainStartRoot
    \/ MainAppendRoot
    \/ MainEnterTry
    \/ WtMakedirs
    \/ WtListdir
    \/ WtScanItem
    \/ WtScanDone
    \/ WtStart
    \/ WtAppend
    \/ WtReturn
    \/ Interrupt
    \/ StopSetFlag
    \/ StopUnschedule
    \/ StopDone
    \/ Join
    \/ JoinDone
    \/ RootDispatch
    \/ \E o \in TickerObservers : Dispatch(o)
    \/ \E o \in TickerObservers : Poll(o)
    \/ \E o \in TickerObservers : PollRaise(o)
    \/ \E o \in TickerObservers : ProbeTimeout(o)
    \/ \E o \in TickerObservers : Process(o)

Next == SysNext

Spec == Init /\ [][Next]_vars

(***************************************************************************)
(* SpecLive: the running process with no shutdown and no I/O failure.      *)
(* Every observer thread that can run does run: a queued event is          *)
(* dispatched, a sleeping probe wakes up for its next poll, and            *)
(* process_file returns.  The producer writes a bounded number of chunks   *)
(* about as fast as the probe polls, so no probe runs into its timeout.    *)
(***************************************************************************)
LiveInit ==
    /\ SysStart(0, 0)
    /\ ProbeIdle
    /\ NormIdle
    /\ RegIdle
    /\ FilterIdle

LiveNext ==
    \/ \E e \in Entities : MkEntityDir(e)
    \/ \E e \in Entities : WriteChunk(e)
    \/ MainListdir
    \/ MainNextTicker
    \/ MainStartRoot
    \/ MainAppendRoot
    \/ MainEnterTry
    \/ WtMakedirs
    \/ WtListdir
    \/ WtScanItem
    \/ WtScanDone
    \/ WtStart
    \/ WtAppend
    \/ WtReturn
    \/ RootDispatch
    \/ \E o \in TickerObservers : Dispatch(o)
    \/ \E o \in TickerObservers : Poll(o)
    \/ \E o \in TickerObservers : Process(o)

\* The steps of the running process but the interrupt, the shutdown and the
\* I/O failure in a probe.
RemakeNext ==
    \/ LiveNext
    \/ \E o \in TickerObservers : ProbeTimeout(o)

ThreadsRun ==
    \A o \in TickerObservers :
        /\ WF_vars(Dispatch(o))
        /\ WF_vars(Poll(o))
        /\ WF_vars(Process(o))

SpecLive == LiveInit /\ [][LiveNext]_vars /\ ThreadsRun

(***************************************************************************)
(* SpecRemake: the running process with no shutdown and no I/O failure,    *)
(* where a ticker folder that is already under reports_dir can appear      *)
(* again: the root observer sees a second directory-creation event for it. *)
(***************************************************************************)
RemakeInit ==
    /\ SysStart(0, MaxRemakes)
    /\ ProbeIdle
    /\ NormIdle
    /\ RegIdle
    /\ FilterIdle

SpecRemake == RemakeInit /\ [][RemakeNext]_vars

(***************************************************************************)
(* SpecProbe: one DownloadsHandler.on_created callback on a clock.  The    *)
(* producer creates the file with its first chunk at time 0 and lands the  *)
(* second chunk plan.gap ticks later; the callback starts _wait_for_file   *)
(* up to MaxDelay ticks after the creation.                                *)
(***************************************************************************)
Horizon == MaxDelay + MaxGap + 3 * (Interval + MaxJitter)

ProbeInit ==
    /\ SysInit
    /\ NormIdle
    /\ RegIdle
    /\ FilterIdle
    /\ plan \in [gap : 1..MaxGap]
    /\ now = 0
    /\ fsize = 1
    /\ ppc = "wait"
    /\ pstart = 0
    /\ plast = -1
    /\ pwake = 0
    /\ pret = -1
    /\ pseen = NoReading

\* The second chunk lands.
SecondChunk ==
    /\ now = plan.gap
    /\ fsize = 1
    /\ fsize' = 2
    /\ UNCHANGED <<plan, now, ppc, pstart, plast, pwake, pret, pseen>>
    /\ UNCHANGED <<sysVars, normVars, regVars, filtVars>>

\* time.sleep(interval) of a sleeping probe with the sleep ignored.
WakeAtNoSleep(t) == t

\* time.sleep(interval): the next iteration starts no earlier than this.
WakeAt(t) == t + Interval

\* size == last_size
SameSize(size, last) == size = last

\* on_created: start_time = time.time(); last_size = -1
ProbeStart ==
    /\ ppc = "wait"
    /\ ppc' = "loop"
    /\ pstart' = now
    /\ plast' = -1
    /\ pwake' = now
    /\ UNCHANGED <<plan, now, fsize, pret, pseen>>
    /\ UNCHANGED <<sysVars, normVars, regVars, filtVars>>

\* The size of a path that does not exist: os.path.getsize raises
\* FileNotFoundError.
Absent == -2

\* an except clause that forgets the size read before
OnNotFoundReset(last) == -1

\* except FileNotFoundError: pass
OnNotFound(last) == last

\* one iteration of the loop of _wait_for_file: the test of the timeout,
\* os.path.getsize, the comparison, and the start of time.sleep
ProbePoll ==
    /\ ppc = "loop"
    /\ now >= pwake
    /\ IF now - pstart >= Timeout
       THEN ppc' = "false" /\ pret' = now /\ UNCHANGED <<plast, pwake, pseen>>
       ELSE IF fsize = Absent
            THEN /\ plast' = OnNotFound(plast)
                 /\ pwake' = WakeAt(now)
                 /\ pseen' = [pseen EXCEPT !.skipped = TRUE]
                 /\ UNCHANGED <<ppc, pret>>
            ELSE IF SameSize(fsize, plast)
                 THEN /\ ppc' = "true"
                      /\ pret' = now
                      /\ UNCHANGED <<plast, pwake, pseen>>
                 ELSE /\ plast' = fsize
                      /\ pwake' = WakeAt(now)
                      /\ pseen' = [size |-> fsize, skipped |-> FALSE]
                      /\ UNCHANGED <<ppc, pret>>
    /\ UNCHANGED <<plan, now, fsize, pstart>>
    /\ UNCHANGED <<sysVars, normVars, regVars, filtVars>>

\* The clock advances: not past a pending chunk, the latest start of the
\* callback, or the latest end of a sleep.
Tick ==
    /\ now < Horizon
    /\ (now = plan.gap) => fsize = 2
    /\ (ppc = "wait") => now < MaxDelay
    /\ (ppc = "loop") => now < pwake + MaxJitter
    /\ now' = now + 1
    /\ UNCHANGED <<plan, fsize, ppc, pstart, plast, pwake, pret, pseen>>
    /\ UNCHANGED <<sysVars, normVars, regVars, filtVars>>

ProbeNext ==
    \/ SecondChunk
    \/ ProbeStart
    \/ ProbePoll
    \/ Tick

SpecProbe == ProbeInit /\ [][ProbeNext]_vars

(***************************************************************************)
(* SpecWait: one _wait_for_file(filepath) call against a path whose file   *)
(* appears, grows, shrinks and vanishes at any time.                       *)
(***************************************************************************)
WaitHorizon == MaxDelay + Timeout + Interval + MaxJitter

\* What os.path.getsize can find at the path.
FileStates == {Absent} \cup 0..FinalSize

WaitInit ==
    /\ SysInit
    /\ NormIdle
    /\ RegIdle
    /\ FilterIdle
    /\ plan = [gap |-> 0]
    /\ now = 0
    /\ fsize \in FileStates
    /\ ppc = "wait"
    /\ pstart = 0
    /\ plast = -1
    /\ pwake = 0
    /\ pret = -1
    /\ pseen = NoReading

\* The producer creates, rewrites or removes the file.
FileChange ==
    /\ ppc \in {"wait", "loop"}
    /\ \E size \in FileStates \ {fsize} : fsize' = size
    /\ UNCHANGED <<plan, now, ppc, pstart, plast, pwake, pret, pseen>>
    /\ UNCHANGED <<sysVars, normVars, regVars, filtVars>>

\* The clock advances while the call is pending or running: not past the
\* latest start of the call or the latest end of a sleep.
WaitTick ==
    /\ ppc \in {"wait", "loop"}
    /\ now < WaitHorizon
    /\ (ppc = "wait") => now < MaxDelay
    /\ (ppc = "loop") => now < pwake + MaxJitter
    /\ now' = now + 1
    /\ UNCHANGED <<plan, fsize, ppc, pstart, plast, pwake, pret, pseen>>
    /\ UNCHANGED <<sysVars, normVars, regVars, filtVars>>

WaitNext ==
    \/ FileChange
    \/ ProbeStart
    \/ ProbePoll
    \/ WaitTick

SpecWait == WaitInit /\ [][WaitNext]_vars

(***************************************************************************)
(* SpecNorm: process_file(src_path, unzipped_dir) on a file system.  A     *)
(* name is a sequence of characters; the tree under unzipped_dir maps each *)
(* existing path (a sequence of names, <<>> for unzipped_dir itself) to a  *)
(* directory or to a file with its bytes.                                  *)
(***************************************************************************)
\* Calls of process_file made on one source item.
MaxCalls == 2

Dir == [kind |-> "dir", data |-> <<>>]
File(bytes) == [kind |-> "file", data |-> bytes]

\* str.lower(), on the letters the names use
LowerChar(c) ==
    CASE c = "R" -> "r" [] c = "Z" -> "z" [] c = "I" -> "i" [] c = "P" -> "p"
      [] OTHER -> c
Lower(str) == [i \in 1..Len(str) |-> LowerChar(str[i])]

\* str.endswith(suffix)
EndsWith(str, suffix) ==
    /\ Len(str) >= Len(suffix)
    /\ SubSeq(str, Len(str) - Len(suffix) + 1, Len(str)) = suffix

\* str.rfind(c) + 1
LastIndexOf(str, c) ==
    LET I == {i \in 1..Len(str) : str[i] = c}
    IN  IF I = {} THEN 0 ELSE CHOOSE i \in I : \A j \in I : j <= i

\* os.path.basename replaced by the whole entry name
BasenameKeepPath(str) == str

\* os.path.basename
Basename(str) == SubSeq(str, LastIndexOf(str, "/") + 1, Len(str))

\* os.path.splitext left out: the name with its extension
SplitExtKeep(name) == name

\* os.path.splitext(name)[0] of a name without separators: the extension
\* starts at the last dot unless only dots precede it
SplitExtStem(name) ==
    LET dot == LastIndexOf(name, ".")
    IN  IF \E i \in 1..(dot - 1) : name[i] # "."
        THEN SubSeq(name, 1, dot - 1)
        ELSE name

\* The path components zipfile extracts a member name to: split at "/",
\* without the empty, "." and ".." components.
RECURSIVE SplitPath(_)
SplitPath(str) ==
    IF str = <<>>
    THEN <<>>
    ELSE LET I == {i \in 1..Len(str) : str[i] = "/"}
             k == IF I = {} THEN Len(str) + 1
                  ELSE CHOOSE i \in I : \A j \in I : i <= j
             head == SubSeq(str, 1, k - 1)
             rest == SubSeq(str, k + 1, Len(str))
         IN  (IF head \in {<<>>, <<".">>, <<".", ".">>} THEN <<>> ELSE <<head>>)
             \o SplitPath(rest)

Front(path) == SubSeq(path, 1, Len(path) - 1)
Exists(t, path) == path \in DOMAIN t
IsDir(t, path) == path \in DOMAIN t /\ t[path].kind = "dir"
Ok(t) == [t |-> t, ok |-> TRUE]
\* the except clause without its logging.error
FailedQuiet(t) == [t |-> t, ok |-> TRUE]
Failed(t) == [t |-> t, ok |-> FALSE]

\* os.makedirs(path, exist_ok=True); the parent of unzipped_dir exists
RECURSIVE Makedirs(_, _)
Makedirs(t, path) ==
    IF Exists(t, path)
    THEN IF IsDir(t, path) THEN Ok(t) ELSE Failed(t)
    ELSE IF path = <<>>
         THEN Ok((path :> Dir) @@ t)
         ELSE LET r == Makedirs(t, Front(path))
              IN  IF r.ok THEN Ok((path :> Dir) @@ r.t) ELSE r

\* open(path, "ab") and the copy of the bytes: what is there is kept
WriteFileAppend(t, path, bytes) ==
    IF path # <<>> /\ IsDir(t, Front(path)) /\ ~IsDir(t, path)
    THEN Ok((path :> File((IF Exists(t, path) THEN t[path].data ELSE <<>>)
                          \o bytes)) @@ t)
    ELSE Failed(t)

\* open(path, "wb") and the copy of the bytes: the parent must be a
\* directory and path must not be one
WriteFile(t, path, bytes) ==
    IF path # <<>> /\ IsDir(t, Front(path)) /\ ~IsDir(t, path)
    THEN Ok((path :> File(bytes)) @@ t)
    ELSE Failed(t)

\* ZipFile.getinfo(name): the last entry of that name
GetInfo(entries, name) ==
    LET I == {i \in 1..Len(entries) : entries[i].name = name}
    IN  entries[CHOOSE i \in I : \A j \in I : j <= i]

\* zf.extract(member, target_dir)
Extract(t, entries, member, targetDir) ==
    LET info == GetInfo(entries, member)
        target == targetDir \o SplitPath(info.name)
        upper == Front(target)
        r == IF Exists(t, upper) THEN Ok(t) ELSE Makedirs(t, upper)
    IN  IF ~r.ok
        THEN r
        ELSE IF EndsWith(info.name, <<"/">>)
             THEN IF IsDir(r.t, target)
                  THEN r
                  ELSE IF ~Exists(r.t, target) /\ IsDir(r.t, upper)
                       THEN Ok((target :> Dir) @@ r.t)
                       ELSE Failed(r.t)
             ELSE WriteFile(r.t, target, info.data)

\* for member in zf.namelist(): zf.extract(member, target_dir)
RECURSIVE ExtractFrom(_, _, _, _)
ExtractFrom(t, entries, i, targetDir) ==
    IF i > Len(entries)
    THEN Ok(t)
    ELSE LET r == Extract(t, entries, entries[i].name, targetDir)
         IN  IF r.ok THEN ExtractFrom(r.t, entries, i + 1, targetDir) ELSE r

\* lines 31-49: the archive opened
ProcessZip(t, src) ==
    IF Len(src.entries) = 1
    THEN LET base == Basename(src.entries[1].name)
             r == Makedirs(t, <<>>)
         IN  IF r.ok
             THEN WriteFile(r.t, IF base = <<>> THEN <<>> ELSE <<base>>,
                            GetInfo(src.entries, src.entries[1].name).data)
             ELSE r
    ELSE LET targetDir == <<SplitExtStem(src.name)>>
             r == Makedirs(t, targetDir)
         IN  IF r.ok THEN ExtractFrom(r.t, src.entries, 1, targetDir) ELSE r

\* shutil.copy2(src, dst): into dst when dst is a directory
Copy2(t, name, bytes, dst) ==
    WriteFile(t, IF IsDir(t, dst) THEN Append(dst, name) ELSE dst, bytes)

Children(tree, path) ==
    {q \in DOMAIN tree : Len(q) = Len(path) + 1 /\ SubSeq(q, 1, Len(path)) = path}

\* shutil.copytree(src, dst, dirs_exist_ok=True): a failing entry is noted
\* and the other entries are still copied
RECURSIVE CopyTree(_, _, _, _)
RECURSIVE CopyEntries(_, _, _, _, _)
CopyEntries(t, stree, todo, dst, ok) ==
    IF todo = {}
    THEN [t |-> t, ok |-> ok]
    ELSE LET q == CHOOSE x \in todo : TRUE
             name == q[Len(q)]
             r == IF stree[q].kind = "dir"
                  THEN CopyTree(t, stree, q, Append(dst, name))
                  ELSE Copy2(t, name, stree[q].data, Append(dst, name))
         IN  CopyEntries(r.t, stree, todo \ {q}, dst, ok /\ r.ok)

CopyTree(t, stree, spath, dst) ==
    LET r == Makedirs(t, dst)
    IN  IF r.ok THEN CopyEntries(r.t, stree, Children(stree, spath), dst, TRUE)
        ELSE r

\* process_file: the tree under unzipped_dir after the call, and whether the
\* call ended without a logged error
ProcessFileFS(t, src) ==
    IF src.kind = "missing"
    THEN Ok(t)
    ELSE IF EndsWith(Lower(src.name), DotZip)
         THEN IF src.kind = "zip" THEN ProcessZip(t, src) ELSE Failed(t)
         ELSE IF src.kind = "dir"
              THEN CopyTree(t, src.tree, <<>>, <<src.name>>)
              ELSE Copy2(t, src.name, src.data, <<src.name>>)

(***************************************************************************)
(* The source items and the prior states of the destination.               *)
(***************************************************************************)
NameA == <<"a">>
NameD == <<"d">>
NameR == <<"r">>
ZipNames == {<<"r", ".", "z", "i", "p">>, <<"R", ".", "Z", "I", "P">>}

EntryPool ==
    { [name |-> <<"a">>, data |-> <<1>>],
      [name |-> <<"a">>, data |-> <<2>>],
      [name |-> <<"d", "/", "a">>, data |-> <<1>>],
      [name |-> <<"a", "/", "d">>, data |-> <<1>>],
      [name |-> <<".", ".", "/", "a">>, data |-> <<2>>],
      [name |-> <<"d", "/">>, data |-> <<>>] }

EntryLists ==
    {<<>>} \cup {<<x>> : x \in EntryPool}
           \cup {<<x, y>> : x \in EntryPool, y \in EntryPool}

SrcTrees ==
    { (<<>> :> Dir),
      (<<>> :> Dir) @@ (<<NameA>> :> File(<<1>>)),
      (<<>> :> Dir) @@ (<<NameA>> :> Dir),
      (<<>> :> Dir) @@ (<<NameA>> :> File(<<1>>)) @@ (<<NameD>> :> Dir)
                    @@ (<<NameD, NameA>> :> File(<<2>>)) }

SrcItems ==
    {MissingSrc}
    \cup { [name |-> n, kind |-> "zip", entries |-> es, data |-> <<9>>,
            tree |-> NoTree] : n \in ZipNames, es \in EntryLists }
    \cup { [name |-> n, kind |-> "badzip", entries |-> <<>>, data |-> <<8>>,
            tree |-> NoTree] : n \in ZipNames }
    \cup { [name |-> n, kind |-> "file", entries |-> <<>>, data |-> b,
            tree |-> NoTree] : n \in {NameA, NameR}, b \in {<<1>>, <<2>>} }
    \cup { [name |-> n, kind |-> "dir", entries |-> <<>>, data |-> <<>>,
            tree |-> st] : n \in {NameA, NameD} \cup ZipNames, st \in SrcTrees }

\* What one name directly under unzipped_dir holds before the call.
Slot(name, what) ==
    CASE what = "file" -> (<<name>> :> File(<<3>>))
      [] what = "dir" -> (<<name>> :> Dir)
      [] what = "dirfile" -> (<<name>> :> Dir) @@ (<<name, NameA>> :> File(<<3>>))
      [] what = "dirdir" -> (<<name>> :> Dir) @@ (<<name, NameA>> :> Dir)
      [] OTHER -> NoTree
SlotKinds == {"none", "file", "dir", "dirfile", "dirdir"}

DestTrees ==
    {NoTree}
    \cup { (<<>> :> Dir) @@ Slot(NameA, x) @@ Slot(NameD, y) @@ Slot(NameR, z) :
           x \in SlotKinds, y \in SlotKinds, z \in SlotKinds }

NormInit ==
    /\ SysInit
    /\ ProbeIdle
    /\ RegIdle
    /\ FilterIdle
    /\ nsrc \in SrcItems
    /\ ntree \in DestTrees
    /\ ntree0 = ntree
    /\ ntree1 = ntree
    /\ ncalls = 0
    /\ nerrs = 0

\* one call process_file(src_path, unzipped_dir)
NormCall ==
    /\ ncalls < MaxCalls
    /\ ntree' = ProcessFileFS(ntree, nsrc).t
    /\ ntree1' = IF ncalls = 0 THEN ntree' ELSE ntree1
    /\ ncalls' = ncalls + 1
    /\ nerrs' = IF ProcessFileFS(ntree, nsrc).ok THEN nerrs ELSE nerrs + 1
    /\ UNCHANGED <<nsrc, ntree0>>
    /\ UNCHANGED <<sysVars, probeVars, regVars, filtVars>>

NormNext == NormCall

SpecNorm == NormInit /\ [][NormNext]_vars

(***************************************************************************)
(* SpecReg: the registrar of watch_and_process under any sequence of       *)
(* directory-creation events on the watch root: a folder appears for the   *)
(* first time, or appears again under a name that was there before (it was *)
(* removed and made again, or moved away and back).  The root observer's   *)
(* thread takes an event from its queue when the callback starts, and      *)
(* watch_ticker appends the observer it made as its last statement.        *)
(***************************************************************************)
\* Folder creations in one run.
MaxCreations == 3

RegInit ==
    /\ SysInit
    /\ ProbeIdle
    /\ NormIdle
    /\ FilterIdle
    /\ rdirs \in SUBSET Entities
    /\ rpc = "listdir"
    /\ rtodo = {}
    /\ robservers = <<>>
    /\ rqueue = <<>>
    /\ rcur = NoFolder
    /\ revents = 0

\* reports_observer.start() of line 151 has returned: the root observer's
\* thread runs, whether or not line 152 has appended it to the list yet.
RootStarted == rpc \in {"append_root", "watching"}

\* A folder named e appears under reports_dir; the root observer, once
\* started, queues a directory-creation event for it.
DirCreated(e) ==
    /\ revents < MaxCreations
    /\ revents' = revents + 1
    /\ rdirs' = rdirs \cup {e}
    /\ rqueue' = IF RootStarted THEN Append(rqueue, e) ELSE rqueue
    /\ UNCHANGED <<rpc, rtodo, robservers, rcur>>
    /\ UNCHANGED <<sysVars, probeVars, normVars, filtVars>>

\* os.listdir(reports_dir) of line 142
RegListdir ==
    /\ rpc = "listdir"
    /\ rtodo' = rdirs
    /\ rpc' = "loop"
    /\ UNCHANGED <<rdirs, robservers, rqueue, rcur, revents>>
    /\ UNCHANGED <<sysVars, probeVars, normVars, filtVars>>

\* watch_ticker(ticker_dir, observers) of the startup loop
RegTicker ==
    /\ rpc = "loop"
    /\ \E e \in rtodo :
          /\ rtodo' = rtodo \ {e}
          /\ robservers' = Append(robservers, e)
    /\ UNCHANGED <<rdirs, rpc, rqueue, rcur, revents>>
    /\ UNCHANGED <<sysVars, probeVars, normVars, filtVars>>

\* reports_observer.schedule(...); reports_observer.start() of line 151
RegStartRoot ==
    /\ rpc = "loop"
    /\ rtodo = {}
    /\ rpc' = "append_root"
    /\ UNCHANGED <<rdirs, rtodo, robservers, rqueue, rcur, revents>>
    /\ UNCHANGED <<sysVars, probeVars, normVars, filtVars>>

\* observers.append(reports_observer) of line 152
RegAppendRoot ==
    /\ rpc = "append_root"
    /\ robservers' = Append(robservers, Root)
    /\ rpc' = "watching"
    /\ UNCHANGED <<rdirs, rtodo, rqueue, rcur, revents>>
    /\ UNCHANGED <<sysVars, probeVars, normVars, filtVars>>

\* The root observer's thread takes the next event from its queue and calls
\* ReportsHandler.on_created, which calls watch_ticker(event.src_path,
\* self.observers) for a directory.
RegDispatch ==
    /\ RootStarted
    /\ rcur = NoFolder
    /\ rqueue # <<>>
    /\ rcur' = Head(rqueue)
    /\ rqueue' = Tail(rqueue)
    /\ UNCHANGED <<rdirs, rpc, rtodo, robservers, revents>>
    /\ UNCHANGED <<sysVars, probeVars, normVars, filtVars>>

\* The callback's watch_ticker reaches observers.append(observer) of line
\* 131 and the callback returns.
RegOnCreated ==
    /\ rcur # NoFolder
    /\ robservers' = Append(robservers, rcur)
    /\ rcur' = NoFolder
    /\ UNCHANGED <<rdirs, rpc, rtodo, rqueue, revents>>
    /\ UNCHANGED <<sysVars, probeVars, normVars, filtVars>>

RegNext ==
    \/ \E e \in Entities : DirCreated(e)
    \/ RegListdir
    \/ RegTicker
    \/ RegStartRoot
    \/ RegAppendRoot
    \/ RegDispatch
    \/ RegOnCreated

SpecReg == RegInit /\ [][RegNext]_vars

(***************************************************************************)
(* SpecFilter: watch_ticker for one ticker and the events of its downloads *)
(* folder.  A name of the folder is free or holds a file or a directory,   *)
(* and the producer can remove an item and make another of either kind     *)
(* under the same name.  A file holds its version as its bytes; a          *)
(* directory holds a file c with its version as bytes and, at the          *)
(* directory's own name, nothing, a file, or a subdirectory with a file k. *)
(* The destination is the tree under unzipped_dir, and process_file is the *)
(* ProcessFileFS of SpecNorm.  The observer is scheduled with              *)
(* recursive=False: a change inside a directory reaches the handler as a   *)
(* modification of that directory.  An event carries is_directory as the   *)
(* item was when the event was made; process_file tests os.path.isdir when *)
(* it is called.                                                           *)
(***************************************************************************)
\* Changes the producer makes to the downloads folder in one run.
MaxChanges == 3
\* Versions of an item's content.
MaxVersion == 2

EventKinds == {"created", "modified", "moved", "deleted"}

\* os.path.exists(src_path) of line 26
ItemExists(i) == fsrc[i].ver > 0

\* os.path.isdir(src_path) of line 53, on the item as it is at the call
IsDirItem(i) == ItemExists(i) /\ fsrc[i].isdir

\* What a directory item holds at the item's own name.
SubKinds == {"none", "file", "dir"}
NameC == <<"c">>
NameK == <<"k">>
\* The name of item i, as a path component.
ItemName(i) == <<i>>

\* The subtree of the directory item i of content version v.
DirTree(i, v, sub) ==
    (<<>> :> Dir) @@ (<<NameC>> :> File(<<v>>))
    @@ (CASE sub = "file" -> (<<ItemName(i)>> :> File(<<v>>))
          [] sub = "dir" -> (<<ItemName(i)>> :> Dir)
                            @@ (<<ItemName(i), NameK>> :> File(<<v>>))
          [] OTHER -> NoTree)

\* The item at downloads/i as process_file finds it.
SrcItem(i) ==
    IF ~ItemExists(i)
    THEN MissingSrc
    ELSE IF fsrc[i].isdir
         THEN [name |-> ItemName(i), kind |-> "dir", entries |-> <<>>,
               data |-> <<>>,
               tree |-> DirTree(i, fsrc[i].ver, fsrc[i].sub)]
         ELSE [name |-> ItemName(i), kind |-> "file", entries |-> <<>>,
               data |-> <<fsrc[i].ver>>, tree |-> NoTree]

\* The items a downloads folder can hold at a name when watch_ticker starts.
InitialItems ==
    {Gone, [isdir |-> FALSE, ver |-> 1, sub |-> "none"]}
    \cup {[isdir |-> TRUE, ver |-> 1, sub |-> k] : k \in SubKinds}

FilterInit ==
    /\ SysInit
    /\ ProbeIdle
    /\ NormIdle
    /\ RegIdle
    /\ fsrc \in [Items -> InitialItems]
    /\ fdst = (<<>> :> Dir)
    /\ fpc = "listdir"
    /\ fscan = {}
    /\ fsnap = {}
    /\ fq = <<>>
    /\ fcur = NoEvent
    /\ fcount = 0

\* The observer delivers events once observer.start() was called.
Watching == fpc \in {"idle", "probe"}

\* The content the item has after a change of this kind.
Changed(kind, version) ==
    CASE kind = "created" -> 1
      [] kind = "modified" -> version + 1
      [] OTHER -> 0

\* The producer creates item i as a file or as a directory (isdir) that
\* holds sub at its own name, or rewrites, renames away or removes the item
\* that is there; for a directory, "modified" is a change of the file c
\* inside it.  The event says what the item was at the change.
SrcChange(i, kind, isdir, sub) ==
    /\ fcount < MaxChanges
    /\ fcount' = fcount + 1
    /\ IF kind = "created"
       THEN ~ItemExists(i) /\ (~isdir => sub = "none")
       ELSE ItemExists(i) /\ isdir = fsrc[i].isdir /\ sub = fsrc[i].sub
    /\ kind = "modified" => fsrc[i].ver < MaxVersion
    /\ fsrc' = [fsrc EXCEPT ![i] =
                  IF Changed(kind, @.ver) = 0 THEN Gone
                  ELSE [isdir |-> isdir, ver |-> Changed(kind, @.ver),
                        sub |-> sub]]
    /\ fq' = IF Watching
             THEN Append(fq, [kind |-> kind, item |-> i, isdir |-> isdir])
             ELSE fq
    /\ UNCHANGED <<fdst, fpc, fscan, fsnap, fcur>>
    /\ UNCHANGED <<sysVars, probeVars, normVars, regVars>>

\* process_file(path, unzipped_dir) on the item at name i: the tree under
\* unzipped_dir after the call, whether or not the call logged an error
ProcessItem(i) == ProcessFileFS(fdst, SrcItem(i)).t

\* for item in os.listdir(downloads_dir)
FltListdir ==
    /\ fpc = "listdir"
    /\ fscan' = {i \in Items : ItemExists(i)}
    /\ fsnap' = fscan'
    /\ fpc' = "scan"
    /\ UNCHANGED <<fsrc, fdst, fq, fcur, fcount>>
    /\ UNCHANGED <<sysVars, probeVars, normVars, regVars>>

\* one iteration of the startup loop
FltScanItem ==
    /\ fpc = "scan"
    /\ \E i \in fscan :
          /\ fscan' = fscan \ {i}
          /\ fdst' = ProcessItem(i)
    /\ UNCHANGED <<fsrc, fpc, fsnap, fq, fcur, fcount>>
    /\ UNCHANGED <<sysVars, probeVars, normVars, regVars>>

\* observer.schedule(event_handler, downloads_dir, recursive=False);
\* observer.start()
FltStart ==
    /\ fpc = "scan"
    /\ fscan = {}
    /\ fpc' = "idle"
    /\ UNCHANGED <<fsrc, fdst, fscan, fsnap, fq, fcur, fcount>>
    /\ UNCHANGED <<sysVars, probeVars, normVars, regVars>>

\* on_created and on_modified are the methods DownloadsHandler defines, and
\* both test "not event.is_directory"
Qualifies(ev) == ev.kind \in {"created", "modified"} /\ ~ev.isdir

\* The observer thread dispatches the next event: on_created / on_modified
\* start _wait_for_file for a file, every other event returns at once.
FltDispatch ==
    /\ fpc = "idle"
    /\ fq # <<>>
    /\ fq' = Tail(fq)
    /\ IF Qualifies(Head(fq))
       THEN fpc' = "probe" /\ fcur' = Head(fq)
       ELSE fpc' = "idle" /\ fcur' = NoEvent
    /\ UNCHANGED <<fsrc, fdst, fscan, fsnap, fcount>>
    /\ UNCHANGED <<sysVars, probeVars, normVars, regVars>>

\* _wait_for_file returned True: os.path.getsize gave the same size at two
\* polls, for a file or for a directory that is at the path by then;
\* process_file(event.src_path, self.unzipped_dir)
FltProcess ==
    /\ fpc = "probe"
    /\ ItemExists(fcur.item)
    /\ fdst' = ProcessItem(fcur.item)
    /\ fpc' = "idle"
    /\ fcur' = NoEvent
    /\ UNCHANGED <<fsrc, fscan, fsnap, fq, fcount>>
    /\ UNCHANGED <<sysVars, probeVars, normVars, regVars>>

\* _wait_for_file returned False: the item is skipped
FltSkip ==
    /\ fpc = "probe"
    /\ fpc' = "idle"
    /\ fcur' = NoEvent
    /\ UNCHANGED <<fsrc, fdst, fscan, fsnap, fq, fcount>>
    /\ UNCHANGED <<sysVars, probeVars, normVars, regVars>>

FilterNext ==
    \/ \E i \in Items, kind \in EventKinds, isdir \in BOOLEAN, sub \in SubKinds :
          SrcChange(i, kind, isdir, sub)
    \/ FltListdir
    \/ FltScanItem
    \/ FltStart
    \/ FltDispatch
    \/ FltProcess
    \/ FltSkip

SpecFilter == FilterInit /\ [][FilterNext]_vars

(***************************************************************************)
(* Claims about the running process.                                       *)
(***************************************************************************)
ThreadEnded(o) == thr[o] \in {"exited", "dead"}
NoFault == faults = MaxFaults
ScanActive(e) == wt.by # "none" /\ wt.ent = e /\ wt.pc = "scan" /\ wt.items # {}
CallbackActive(e) == \E o \in ObserversOf(e) : thr[o] = "run"
InProcessFile(e) == \E o \in ObserversOf(e) : thr[o] = "run" /\ cb[o].pc = "process"
Watched(e) == \E o \in ObserversOf(e) : started[o]

\* C2: after an interrupt, watch_and_process ends only when every watcher that
\* was started has been stopped and its thread has ended, and the join loop
\* never waits for a watcher that was not stopped.
C2_GracefulShutdown ==
    /\ (interrupted /\ ~Alive) =>
          \A o \in Watchers : started[o] => (stopFlag[o] /\ ThreadEnded(o))
    /\ (mainpc = "join" /\ idx <= Len(observers)) => stopFlag[observers[idx]]

\* C3: once the stop loop is over every watcher in the observers list has been
\* stopped; after the stop request no watcher is started or appended, and no
\* callback begins on a watcher whose stop() has returned.
C3_WatcherSetProtected ==
    /\ [](mainpc \in {"join", "done"} =>
             \A i \in 1..Len(observers) : unsched[observers[i]])
    /\ [][interrupted => (observers' = observers /\ started' = started)]_vars
    /\ [][\A o \in Watchers :
             (unsched[o] /\ thr[o] # "run") => thr'[o] # "run"]_vars

\* C4: with the root watcher idle, its queue empty and no failure injected,
\* every ticker folder under the watch root has a watcher on its downloads
\* folder.
C4_DynamicDiscovery ==
    (/\ mainpc = "sleep"
     /\ thr[RootObserver] = "idle"
     /\ queue[RootObserver] = <<>>
     /\ NoFault)
    => \A e \in dirs : Watched(e)

\* C5: a complete file that was in the downloads folder when the watcher of
\* its ticker was started has been handed to process_file once every watcher
\* of the ticker is idle with an empty queue (no failure injected).
C5_ActivationMissesNoFile ==
    \A e \in Entities :
        (/\ atStart[e]
         /\ Watched(e)
         /\ \A o \in ObserversOf(e) :
                started[o] => (thr[o] = "idle" /\ queue[o] = <<>>)
         /\ wt.ent # e
         /\ NoFault)
        => invoked[e]

\* C6: the destination of a ticker changes only in a callback whose probe saw
\* two equal size readings, and it never holds the content of a file that was
\* still being written.
C6_NeverNormalizedMidWrite ==
    [][\A e \in Entities :
          dest'[e] # dest[e] =>
             (InProcessFile(e) /\ dest'[e] = FinalSize)]_vars

\* The _wait_for_file / process_file executions in progress for the
\* source/destination pair of ticker e: the callbacks of the observers bound
\* to its downloads folder, and the scan of a watch_ticker call.
InProgress(e) ==
    Cardinality({o \in ObserversOf(e) : thr[o] = "run"})
       + (IF ScanActive(e) THEN 1 ELSE 0)

\* C7: for one ticker at most one execution is in progress at a time, counting
\* the scan of watch_ticker and the callbacks of every watcher bound to the
\* ticker's downloads folder.
C7_PerEntitySerialization ==
    \A e \in Entities : InProgress(e) <= 1

\* C8: no failure while probing or normalizing an item ends the watcher's
\* thread: the callback returns and later events are dispatched.
C8_PerItemContainment ==
    \A o \in TickerObservers : thr[o] # "dead"

\* C9: a failure of os.makedirs or os.listdir in watch_ticker leaves the
\* process running and the root watcher alive.
C9_RegistrationIsolation ==
    regErr # {} => (mainpc # "raised" /\ thr[RootObserver] # "dead")

\* C15: in every interleaving of the two tickers' files, the destination of a
\* ticker changes only in a process_file call made for that ticker (its
\* startup scan or a callback of its own watcher) and then holds the
\* normalization of that ticker's own file, or, when that call failed, a
\* part of it; it never holds anything else.
C15_EntityIsolation ==
    /\ [][\A e \in Entities :
             dest'[e] # dest[e] =>
                /\ ScanActive(e) \/ InProcessFile(e)
                /\ IF faults' = faults
                   THEN dest'[e] = chunks[e]
                   ELSE dest'[e] <= chunks[e]]_vars
    /\ [](\A e \in Entities :
             /\ dest[e] <= chunks[e]
             /\ dest[e] > 0 => invoked[e])

\* C15 witness: both tickers' files were normalized, at different sizes, and
\* a callback of each watcher is in progress.
C15_Witness ==
    /\ dest["A"] = FinalSize
    /\ dest["B"] = 1
    /\ CallbackActive("A")
    /\ CallbackActive("B")

\* The last chunk of e's file landed while e's watcher was watching.
FinalWriteWatched(e) == Watched(e) /\ ~atStart[e] /\ chunks[e] = FinalSize

\* C18: with no shutdown and no I/O failure, once the producer has written
\* the last chunk of a file under a running watcher, that watcher's
\* callbacks come to a process_file call that reads the complete file, and
\* from then on the destination holds the normalization of the final
\* content.
C18_FinalNormalizationWins ==
    \A e \in Entities :
        FinalWriteWatched(e) ~> [](dest[e] = FinalSize)

\* C18 witness: the last chunk was written under the running watcher, the
\* watcher has drained its events and the destination holds the
\* normalization of the complete file.
C18_Witness ==
    /\ FinalWriteWatched("A")
    /\ \A o \in ObserversOf("A") :
          started[o] => (thr[o] = "idle" /\ queue[o] = <<>>)
    /\ dest["A"] = FinalSize
    /\ invoked["A"]

\* The observers of the list that are bound to directory d.
BoundTo(d) == {i \in 1..Len(robservers) : robservers[i] = d}

\* C17: after any sequence of directory-creation events at most one watcher
\* is bound to each ticker's downloads folder, and once startup is over
\* exactly one watcher is bound to the watch root.
C17_WatcherSet ==
    /\ \A e \in Entities : Cardinality(BoundTo(e)) <= 1
    /\ rpc = "watching" => Cardinality(BoundTo(Root)) = 1

\* The path of the copy of item i under unzipped_dir, and what the tree t
\* holds at and below it.
CopyPath(i) == <<ItemName(i)>>
CopyOf(t, i) ==
    [q \in {p \in DOMAIN t : Len(p) > 0 /\ p[1] = ItemName(i)} |-> t[q]]

\* C19: once the watcher is started its destination changes only in the
\* callback of a create or modify event on a file directly inside the
\* downloads folder, and only for that item, which is not a directory when
\* it is copied: directory events, move and delete events and changes inside
\* a subdirectory change nothing.  The destination holds a copy of a
\* directory only if the item was in the folder at activation; the startup
\* scan copies every item of the folder, a directory included, when the
\* folder does not change during the scan, and a copy once made stays.
C19_EventFilter ==
    /\ [][(Watching /\ fdst' # fdst) =>
             /\ fpc = "probe"
             /\ fcur.kind \in {"created", "modified"}
             /\ ~fcur.isdir
             /\ ~IsDirItem(fcur.item)
             /\ \A i \in Items \ {fcur.item} :
                    CopyOf(fdst', i) = CopyOf(fdst, i)]_vars
    /\ [](\A i \in Items : IsDir(fdst, CopyPath(i)) => i \in fsnap)
    /\ [](\A i \in Items :
             (Watching /\ i \in fsnap /\ fcount = 0) =>
                 Exists(fdst, CopyPath(i)))
    /\ [][\A i \in Items :
             Exists(fdst, CopyPath(i)) => Exists(fdst', CopyPath(i))]_vars

(***************************************************************************)
(* Claims about the clocked probe.                                         *)
(***************************************************************************)
\* C1 as stated: when the two chunks are more than one poll interval apart,
\* _wait_for_file returns true only after the second chunk has landed and
\* the size has then stayed unchanged for one poll interval.
C1_StabilityGating ==
    (ppc = "true" /\ plan.gap > Interval) => pret >= plan.gap + Interval

\* C1 amended: when the second chunk lands less than one poll interval after
\* the first, _wait_for_file returns true only after the second chunk has
\* landed and the size has then stayed unchanged for one poll interval.
C1_StabilityGatingShortGap ==
    (ppc = "true" /\ plan.gap < Interval) =>
        (pret >= plan.gap + Interval /\ plast = 2)

\* C1 witness: a probe that started before the second chunk of a short-gap
\* file landed has returned true.
C1_Witness ==
    ppc = "true" /\ plan.gap < Interval /\ pstart < plan.gap

\* A step that is one iteration of the loop of _wait_for_file.
PollStep == ppc = "loop" /\ (ppc' # ppc \/ pwake' # pwake)
TimedOut == now - pstart >= Timeout

\* C16: _wait_for_file returns true at a poll that reads the size the last
\* successful reading gave, and at the first such poll before the timeout:
\* never at the first reading, and whether or not polls in between found the
\* path missing; it returns false at the first poll at or after the timeout,
\* and only there.
C16_ProbeResult ==
    /\ [][PollStep =>
             /\ ppc' = "true" <=>
                    (~TimedOut /\ fsize # Absent /\ fsize = pseen.size)
             /\ ppc' = "false" <=> TimedOut]_vars
    /\ [](ppc = "true" => (pseen.size >= 0 /\ pret - pstart < Timeout))
    /\ [](ppc = "false" => pret - pstart >= Timeout)

\* C16 witness: the call returned true for a zero-byte file that was missing
\* at a poll between the two readings of its size.
C16_Witness ==
    /\ ppc = "true"
    /\ pseen.size = 0
    /\ pseen.skipped

\* C16 witness: the call returned false for a path that never had a file
\* when polled.
C16_WitnessNeverExists ==
    /\ ppc = "false"
    /\ pseen = [size |-> -1, skipped |-> TRUE]

(***************************************************************************)
(* Claims about process_file.                                              *)
(***************************************************************************)
\* C10: after a second call of process_file on the unchanged source item the
\* tree under the destination is the tree the first call left.
C10_Idempotent ==
    ncalls >= 2 => ntree = ntree1

\* C10 witness: two calls were made on a multi-entry archive and the first
\* one changed a destination that already held something.
C10_Witness ==
    /\ ncalls = 2
    /\ nsrc.kind = "zip"
    /\ Len(nsrc.entries) = 2
    /\ ntree0 # NoTree
    /\ ntree1 # ntree0

\* The first call was made on a valid archive with this many entries.
CalledOnZip(n) ==
    /\ ncalls >= 1
    /\ nsrc.kind = "zip"
    /\ Len(nsrc.entries) = n

\* C11: process_file on a valid archive without entries leaves the tree under
\* the destination as it was (no file, no directory is created) and logs no
\* error.
C11_ZeroEntryNoOutput ==
    CalledOnZip(0) => ntree1 = ntree0 /\ nerrs = 0

\* The directories below the destination root.
SubDirs(t) == {p \in DOMAIN t : p # <<>> /\ t[p].kind = "dir"}
\* The tree t with the destination root in place.
WithRoot(t) == (<<>> :> Dir) @@ t
\* Trees t and u hold the same at every path outside the set of paths P.
SameOutside(t, u, P) ==
    /\ DOMAIN t \ P = DOMAIN u \ P
    /\ \A p \in DOMAIN t \ P : t[p] = u[p]
\* The last component of an entry's internal path.
LeafName(entry) == SplitPath(entry.name)[Len(SplitPath(entry.name))]
IsFileEntry(entry) == ~EndsWith(entry.name, <<"/">>)

\* C12: after process_file on an archive with exactly one entry X (the .zip
\* suffix in any case), destination/<basename(X)> holds X's bytes, whatever
\* file was there before, and no subdirectory is created: nothing else under
\* the destination changes.  The write is impossible, and the call logs an
\* error and writes nothing, exactly when X is a directory entry or
\* destination/<basename(X)> is an existing directory.
C12_SingleEntryRule ==
    (CalledOnZip(1) /\ ncalls = 1) =>
        LET X == nsrc.entries[1]
            target == <<LeafName(X)>>
        IN  /\ SubDirs(ntree) = SubDirs(ntree0)
            /\ SameOutside(ntree, WithRoot(ntree0), {target})
            /\ IF IsFileEntry(X) /\ ~IsDir(ntree0, target)
               THEN /\ target \in DOMAIN ntree
                    /\ ntree[target] = File(X.data)
                    /\ nerrs = 0
               ELSE /\ ntree = WithRoot(ntree0)
                    /\ nerrs = 1

\* C12 witness: the one entry d/a of an archive named in upper case was
\* written to destination/a over the file that was there.
C12_Witness ==
    /\ CalledOnZip(1)
    /\ ncalls = 1
    /\ nsrc.name = <<"R", ".", "Z", "I", "P">>
    /\ nsrc.entries[1].name = <<"d", "/", "a">>
    /\ <<NameA>> \in DOMAIN ntree0
    /\ ntree0[<<NameA>>] = File(<<3>>)
    /\ ntree[<<NameA>>] = File(nsrc.entries[1].data)
    /\ ~IsDir(ntree0, <<NameD>>)
    /\ ~IsDir(ntree, <<NameD>>)

\* The archive's name without its four-character suffix.
StemOf(name) == SubSeq(name, 1, Len(name) - Len(DotZip))
\* Where the multi-entry rule puts an entry.
EntryPath(entry) == <<StemOf(nsrc.name)>> \o SplitPath(entry.name)
IsProperPrefix(p, q) == Len(p) < Len(q) /\ SubSeq(q, 1, Len(p)) = p
\* The paths at and below destination/<stem>.
UnderStem(t) ==
    {p \in DOMAIN t : p = <<StemOf(nsrc.name)>>
                      \/ IsProperPrefix(<<StemOf(nsrc.name)>>, p)}
\* The entry is the last one the archive lists for its path.
LastOfPath(i) ==
    \A j \in (i + 1)..Len(nsrc.entries) :
        EntryPath(nsrc.entries[j]) # EntryPath(nsrc.entries[i])
\* No entry needs a directory where another entry puts a file.
NoClash ==
    \A i, j \in 1..Len(nsrc.entries) :
        IsFileEntry(nsrc.entries[i]) =>
            /\ ~IsProperPrefix(EntryPath(nsrc.entries[i]), EntryPath(nsrc.entries[j]))
            /\ EntryPath(nsrc.entries[i]) = EntryPath(nsrc.entries[j])
                   => IsFileEntry(nsrc.entries[j])
\* What the destination held allows each entry's path: only directories
\* above it, and not a directory where a file goes or a file where a
\* directory goes.
PriorAllows ==
    \A i \in 1..Len(nsrc.entries) :
        LET p == EntryPath(nsrc.entries[i])
        IN  /\ \A k \in 1..(Len(p) - 1) :
                   Exists(ntree0, SubSeq(p, 1, k)) => IsDir(ntree0, SubSeq(p, 1, k))
            /\ Exists(ntree0, p) =>
                   (IsDir(ntree0, p) <=> ~IsFileEntry(nsrc.entries[i]))

\* C13: after process_file on an archive <stem>.zip with more than one entry
\* nothing outside destination/<stem>/ has changed; when the call logged no
\* error every entry is at destination/<stem>/<its internal path> with its
\* bytes (the last entry's, where several entries have one path); and the call logs no error, overwriting the files already at those
\* paths, whenever the entries' paths do not clash with each other or with a
\* file or directory of the other kind that the destination already holds.
C13_MultiEntryRule ==
    (ncalls = 1 /\ nsrc.kind = "zip" /\ Len(nsrc.entries) > 1) =>
        /\ SameOutside(ntree, WithRoot(ntree0), UnderStem(ntree) \cup UnderStem(ntree0))
        /\ nerrs = 0 =>
               \A i \in 1..Len(nsrc.entries) :
                   LET p == EntryPath(nsrc.entries[i])
                   IN  /\ p \in DOMAIN ntree
                       /\ ntree[p] = IF ~IsFileEntry(nsrc.entries[i]) THEN Dir
                                     ELSE IF LastOfPath(i)
                                          THEN File(nsrc.entries[i].data)
                                          ELSE ntree[p]
        /\ (NoClash /\ PriorAllows) => nerrs = 0

\* C13 witness: r.zip with the entries a and d/a was extracted into
\* destination/r/, which held another file a before.
C13_Witness ==
    /\ ncalls = 1
    /\ nsrc.kind = "zip"
    /\ nsrc.name = <<"r", ".", "z", "i", "p">>
    /\ Len(nsrc.entries) = 2
    /\ nsrc.entries[1].name = <<"a">>
    /\ nsrc.entries[2].name = <<"d", "/", "a">>
    /\ <<NameR, NameA>> \in DOMAIN ntree0
    /\ ntree0[<<NameR, NameA>>] = File(<<3>>)
    /\ ntree[<<NameR, NameA>>] = File(nsrc.entries[1].data)
    /\ ntree[<<NameR, NameD, NameA>>] = File(nsrc.entries[2].data)
    /\ nerrs = 0

\* C14: process_file on a .zip-suffixed file that does not open as an archive
\* leaves the tree under the destination as it was, logs one error per call
\* and returns, so that the next call is made.
C14_CorruptArchive ==
    (ncalls >= 1 /\ nsrc.kind = "badzip") =>
        /\ ntree = ntree0
        /\ nerrs = ncalls

\* C14 witness: two calls were made on a corrupt archive with a destination
\* that held files.
C14_Witness ==
    /\ ncalls = 2
    /\ nsrc.kind = "badzip"
    /\ <<NameR>> \in DOMAIN ntree0
    /\ nerrs = 2

====
